---- MODULE Spec2Model ----
(***************************************************************************)
(* Model of src/lambda/main.py: the monthly HelloAsso payment extract.     *)
(*                                                                         *)
(* lambda_handler is a sequential program; pc is its position.  Every call *)
(* to the outside (environment, parameter store, token endpoint, payment   *)
(* API, S3, SNS) is one step whose outcome is drawn from a small set.      *)
(* call_api's while loop is two steps per iteration: the GET (the response *)
(* arrives in page_response) and the processing of that response.          *)
(***************************************************************************)
EXTENDS Integers, Sequences, FiniteSets, TLC

(***************************************************************************)
(* Bounds of the model.                                                    *)
(*   MaxPageNum: page_num and the count of page requests are exact below   *)
(*               MaxPageNum; MaxPageNum stands for "MaxPageNum or more".   *)
(*   MaxItems:   the upstream never serves more than MaxItems items in one *)
(*               call of call_api.                                         *)
(***************************************************************************)
MaxPageNum == 3
MaxItems == 3

(***************************************************************************)
(* Python / JSON values, tagged by type.                                   *)
(***************************************************************************)
PyNone == [t |-> "null"]
JStr(s) == [t |-> "str", s |-> s]
JInt(n) == [t |-> "int", n |-> n]
JDict(f) == [t |-> "dict", d |-> f]
JList(q) == [t |-> "list", l |-> q]
EmptyDict == JDict(<<>>)

\* A local name that has not been assigned yet.
Unbound == [unbound |-> TRUE]

IsDict(v) == v.t = "dict"
IsList(v) == v.t = "list"
IsStr(v) == v.t = "str"
IsInt(v) == v.t = "int"

\* Python truthiness: None, 0, "", [] and {} are false.
Truthy(v) ==
    CASE v.t = "null" -> FALSE
      [] v.t = "str" -> v.s # ""
      [] v.t = "int" -> v.n # 0
      [] v.t = "dict" -> DOMAIN v.d # {}
      [] v.t = "list" -> Len(v.l) > 0

\* dict.get(key, default) on a value known to be a dict.
PyGet(v, key, default) == IF key \in DOMAIN v.d THEN v.d[key] ELSE default

(***************************************************************************)
(* Calendar dates (datetime.date) and the report window.                   *)
(***************************************************************************)
IsLeap(y) == (y % 4 = 0 /\ y % 100 # 0) \/ y % 400 = 0

DaysInMonth(y, m) ==
    IF m = 2 THEN (IF IsLeap(y) THEN 29 ELSE 28)
    ELSE IF m \in {4, 6, 9, 11} THEN 30 ELSE 31

\* date - timedelta(days=1)
MinusOneDay(date) ==
    IF date.d > 1 THEN [date EXCEPT !.d = date.d - 1]
    ELSE IF date.m > 1
         THEN [y |-> date.y, m |-> date.m - 1, d |-> DaysInMonth(date.y, date.m - 1)]
         ELSE [y |-> date.y - 1, m |-> 12, d |-> 31]

\* date.replace(day=n)
ReplaceDay(date, n) == [date EXCEPT !.d = n]

\* strftime('%Y-%m-%d'): the zero-padded text is one-to-one with (y, m, d).
Strftime(date) == [text |-> "%Y-%m-%d", y |-> date.y, m |-> date.m, d |-> date.d]

\* The dates of the run (datetime.now(timezone.utc).date()).
Dates ==
    { [y |-> 2024, m |-> 1, d |-> 15],
      [y |-> 2024, m |-> 3, d |-> 31],
      [y |-> 2023, m |-> 3, d |-> 1],
      [y |-> 2024, m |-> 2, d |-> 5] }

first_day_current_month(date) == ReplaceDay(date, 1)
to_date_previous_month(date) == MinusOneDay(first_day_current_month(date))
to_date(date) == ReplaceDay(date, 7)
from_date(date) == ReplaceDay(to_date_previous_month(date), 1)

(***************************************************************************)
(* The environment (os.environ).                                           *)
(***************************************************************************)
PlainRequired ==
    { "API_URL_PARAM_NAME", "API_URL_TOKEN_PARAM_NAME", "API_CLIENT_ID_PARAM_NAME",
      "API_CLIENT_SECRET_PARAM_NAME", "S3_BUCKET_NAME" }
TemplateRequired == { "SUCCESS_SNS_SUBJECT_TEMPLATE", "ERROR_SNS_SUBJECT_TEMPLATE" }
EnvNames == PlainRequired \cup TemplateRequired \cup {"PRESIGNED_URL_EXPIRATION", "SNS_TOPIC_ARN"}

\* "missing": the variable is not set.  PRESIGNED_URL_EXPIRATION is set to the
\* text of an integer ("int") or to some other text ("notint").
EnvValues(name) ==
    IF name = "PRESIGNED_URL_EXPIRATION" THEN {"missing", "int", "notint"}
    ELSE {"missing", "set"}

Environments == { e \in [EnvNames -> {"missing", "set", "int", "notint"}] :
                    \A name \in EnvNames : e[name] \in EnvValues(name) }

\* Lines 380-388, in order: the first failing read decides the exception.
ReadEnvironment(e) ==
    IF \E name \in PlainRequired : e[name] = "missing" THEN "KeyError"
    ELSE IF e["PRESIGNED_URL_EXPIRATION"] = "missing" THEN "KeyError"
    ELSE IF e["PRESIGNED_URL_EXPIRATION"] = "notint" THEN "ValueError"
    ELSE IF \E name \in TemplateRequired : e[name] = "missing" THEN "KeyError"
    ELSE "ok"

\* Line 386 is reached only when lines 380-385 did not raise.
ReachesSnsTopicRead(e) ==
    /\ \A name \in PlainRequired : e[name] # "missing"
    /\ e["PRESIGNED_URL_EXPIRATION"] = "int"

\* os.environ.get('SNS_TOPIC_ARN')
SnsTopicOf(e) == IF e["SNS_TOPIC_ARN"] = "set" THEN JStr("arn:topic") ELSE PyNone

(***************************************************************************)
(* Outcomes of the outside calls.                                          *)
(***************************************************************************)
\* get_parameter gives the value or raises a client error (ParameterNotFound,
\* access denied, ...); a response it returns always has ['Parameter']['Value'].
SsmOutcomes == {"ok", "ClientError"}
TokenOutcomes == {"ok", "no_access_token", "RequestException", "ValueError"}
S3Outcomes == {"ok", "put_failed", "presign_failed"}
PublishOutcomes == {"ok", "NotFoundException", "ClientError", "Exception"}
\* str.format on a subject template: fine, an unknown named field (KeyError),
\* or a malformed or positional field (ValueError, IndexError).
FormatOutcomes == {"ok", "KeyError", "ValueError"}

\* The return values of lambda_handler.
NoResult == [statusCode |-> 0, message |-> "running"]
Unhandled == [statusCode |-> 0, message |-> "exception left lambda_handler"]
ConfigurationError == [statusCode |-> 500, message |-> "Configuration Error"]
InternalServerError == [statusCode |-> 500, message |-> "Internal Server Error"]

NoNet == [ssm |-> 0, token |-> 0, page |-> 0, put |-> 0, presign |-> 0, publish |-> 0]

(***************************************************************************)
(* convert_json_to_csv (lines 39-139).                                     *)
(*                                                                         *)
(* x / 100 is kept exact: JFloat(n) is the number n / 100.  A joined cell  *)
(* keeps its parts: JJoin(sep, parts) is sep.join(parts).                  *)
(***************************************************************************)
JFloat(n) == [t |-> "float", cents |-> n]
JJoin(sep, parts) == [t |-> "joined", sep |-> sep, parts |-> parts]

PAYMENT_STATE_TRANSLATIONS ==
    [ Pending |-> "Paiement est planifiée à une date ultérieur, pas encore traité",
      Authorized |-> "Paiement autorisé, validé et traité",
      Refused |-> "Paiement refusé",
      Registered |-> "Paiement fait hors ligne",
      Refunded |-> "Paiement remboursé",
      Refunding |-> "Paiement en cours de remboursement",
      Contested |-> "Paiement contesté" ]

CASHOUT_STATE_TRANSLATIONS ==
    [ CashedOut |-> "Versé sur le compte bancaire",
      WaitingForCashOutConfirmation |-> "En attente de confirmation de versement",
      Refunding |-> "Paiement en cours de remboursement",
      Refunded |-> "Paiement remboursé",
      TransferInProgress |-> "Le paiement est en cours de transfert vers le compte",
      Transfered |-> "Somme transférée sur le compte HelloAsso de l'association" ]

headers ==
    << "Référence commande", "Référence du paiement", "Montant total", "Date du paiement",
       "Statut du paiement", "Versé", "Date du versement", "Nom payeur", "Prénom payeur",
       "Email payeur", "Date de naissance", "Raison sociale", "Adresse payeur",
       "Code postal payeur", "Ville payeur", "Montant du tarif", "Attestation",
       "Remboursement", "Status paiement (items)", "Description (items)" >>

\* The elements that are dicts, order kept.
SelectDicts(q) == SelectSeq(q, IsDict)

\* The plausible slip: payment.get(key), no default and no "or {}".
GetOrEmptyDict_NoDefault(payment, key) == PyGet(payment, key, PyNone)

\* payment.get(key, {}) or {}   (lines 70-71)
GetOrEmptyDict(payment, key) ==
    LET v == PyGet(payment, key, EmptyDict) IN IF Truthy(v) THEN v ELSE EmptyDict

\* payment.get('items', []) or []   (line 72)
GetItemsList(payment) ==
    LET v == PyGet(payment, "items", JList(<<>>)) IN IF Truthy(v) THEN v ELSE JList(<<>>)

\* The elements "for item in items_list" visits that are dicts.  Iterating a
\* str yields characters and iterating a dict yields its keys: none is a dict.
IterableDicts(v) == IF IsList(v) THEN SelectDicts(v.l) ELSE <<>>

\* The default of item.get('amount', 0) and payment.get('amount', 0).
AmountDefault == JInt(0)
\* The default of the text fields: .get(key, '').
TextDefault == JStr("")

\* The plausible slip: table.get(state), the fallback argument forgotten.
Translate_NoFallback(table, state) ==
    IF IsStr(state) /\ state.s \in DOMAIN table THEN JStr(table[state.s]) ELSE PyNone

\* dict.get(key, default) in the translation tables (lines 106, 109).
Translate(table, state) ==
    IF IsStr(state) /\ state.s \in DOMAIN table THEN JStr(table[state.s]) ELSE state

\* datetime.fromisoformat on the timestamps of the model.
IsoDates ==
    [ s \in {"2024-01-15T10:30:00+01:00", "2023-12-31T23:59:59+00:00"} |->
        IF s = "2024-01-15T10:30:00+01:00"
        THEN [y |-> 2024, m |-> 1, d |-> 15]
        ELSE [y |-> 2023, m |-> 12, d |-> 31] ]

\* strftime('%d/%m/%Y')
StrftimeDMY(date) == <<date.d, date.m, date.y>>

\* One entry of refundOperations that is a dict (lines 84-96): its line.
RefundLine(refund) ==
    LET amount == PyGet(refund, "amount", AmountDefault)
        metaRaw == PyGet(refund, "meta", EmptyDict)
        meta == IF Truthy(metaRaw) THEN metaRaw ELSE EmptyDict
    IN  IF ~IsInt(amount) THEN [line |-> "Erreur formatage remboursement"]
        ELSE IF ~IsDict(meta) THEN [raise |-> "AttributeError"]
        ELSE LET created_at_str == PyGet(meta, "createdAt", PyNone) IN
             IF ~Truthy(created_at_str)
             THEN [line |-> "Remboursement de (date inconnue)", amount |-> JFloat(amount.n)]
             ELSE IF IsStr(created_at_str) /\ created_at_str.s \in DOMAIN IsoDates
             THEN [line |-> "Remboursement de le", amount |-> JFloat(amount.n),
                   date |-> StrftimeDMY(IsoDates[created_at_str.s])]
             ELSE [line |-> "Erreur formatage remboursement"]

RECURSIVE RefundLines(_)
RefundLines(q) ==
    IF q = <<>> THEN <<>> ELSE <<RefundLine(Head(q))>> \o RefundLines(Tail(q))

\* formatted_refunds (lines 78-100)
FormattedRefunds(payment) ==
    LET refund_ops == PyGet(payment, "refundOperations", JList(<<>>)) IN
    IF IsList(refund_ops) THEN RefundLines(SelectDicts(refund_ops.l)) ELSE <<>>

\* [f(item) for item in items_list if isinstance(item, dict)]
RECURSIVE MapGet(_, _, _)
MapGet(q, key, default) ==
    IF q = <<>> THEN <<>>
    ELSE <<PyGet(Head(q), key, default)>> \o MapGet(Tail(q), key, default)

RECURSIVE MapDiv100(_)
MapDiv100(q) == IF q = <<>> THEN <<>> ELSE <<JFloat(Head(q).n)>> \o MapDiv100(Tail(q))

SeqAll(q, P(_)) == \A i \in 1..Len(q) : P(q[i])

\* csv.writer writes None as the empty field and any other value as its text.
CsvCell(v) == IF v = PyNone THEN JStr("") ELSE v

\* The exception one payment (a dict) raises in the loop body of lines 70-134,
\* in evaluation order, or "none".
RowError(payment) ==
    LET order_info == GetOrEmptyDict(payment, "order")
        payer_info == GetOrEmptyDict(payment, "payer")
        items_list == GetItemsList(payment)
        items == IterableDicts(items_list)
        refunds == FormattedRefunds(payment)
    IN  CASE IsInt(items_list) -> "TypeError"
          [] ~SeqAll(MapGet(items, "amount", AmountDefault), IsInt) -> "TypeError"
          [] ~SeqAll(MapGet(items, "state", TextDefault), IsStr) -> "TypeError"
          [] ~SeqAll(MapGet(items, "name", TextDefault), IsStr) -> "TypeError"
          [] \E i \in 1..Len(refunds) : "raise" \in DOMAIN refunds[i] -> "AttributeError"
          [] PyGet(payment, "state", TextDefault).t \in {"list", "dict"} -> "TypeError"
          [] PyGet(payment, "cashOutState", TextDefault).t \in {"list", "dict"} -> "TypeError"
          [] ~IsDict(order_info) -> "AttributeError"
          [] ~IsInt(PyGet(payment, "amount", AmountDefault)) -> "TypeError"
          [] ~IsDict(payer_info) -> "AttributeError"
          [] OTHER -> "none"

\* The row of one payment (lines 112-133), as csv.writer writes it.
Row(payment) ==
    LET order_info == GetOrEmptyDict(payment, "order")
        payer_info == GetOrEmptyDict(payment, "payer")
        items == IterableDicts(GetItemsList(payment))
        item_amounts == JJoin("/", MapDiv100(MapGet(items, "amount", AmountDefault)))
        item_states == JJoin("/", MapGet(items, "state", TextDefault))
        item_names == JJoin("/", MapGet(items, "name", TextDefault))
        refund_ops_str == JJoin("\n", FormattedRefunds(payment))
        row ==
          << PyGet(order_info, "id", TextDefault),
             PyGet(payment, "id", TextDefault),
             JFloat(PyGet(payment, "amount", AmountDefault).n),
             PyGet(order_info, "date", TextDefault),
             Translate(PAYMENT_STATE_TRANSLATIONS, PyGet(payment, "state", TextDefault)),
             Translate(CASHOUT_STATE_TRANSLATIONS, PyGet(payment, "cashOutState", TextDefault)),
             PyGet(payment, "cashOutDate", TextDefault),
             PyGet(payer_info, "lastName", TextDefault),
             PyGet(payer_info, "firstName", TextDefault),
             PyGet(payer_info, "email", TextDefault),
             PyGet(payer_info, "dateOfBirth", TextDefault),
             PyGet(payer_info, "company", TextDefault),
             PyGet(payer_info, "address", TextDefault),
             PyGet(payer_info, "zipCode", TextDefault),
             PyGet(payer_info, "city", TextDefault),
             item_amounts,
             PyGet(payment, "paymentReceiptUrl", TextDefault),
             refund_ops_str,
             item_states,
             item_names >>
    IN  [i \in 1..Len(row) |-> CsvCell(row[i])]

\* The loop of lines 65-134: elements that are not dicts are skipped; the rows
\* of the others in order, or the exception of the first payment that raises.
ConvertRows(q) ==
    LET payments == SelectDicts(q)
        raising == { i \in 1..Len(payments) : RowError(payments[i]) # "none" }
    IN  IF raising # {}
        THEN [ raised |-> RowError(payments[CHOOSE i \in raising : \A j \in raising : i <= j]),
               rows |-> <<>> ]
        ELSE [ raised |-> "none", rows |-> [i \in 1..Len(payments) |-> Row(payments[i])] ]

convert_json_to_csv(json_data_list) ==
    LET r == ConvertRows(json_data_list) IN
    IF r.raised # "none" THEN r ELSE [raised |-> "none", rows |-> <<headers>> \o r.rows]

(***************************************************************************)
(* The payment API: what one GET of call_api can come back with.           *)
(***************************************************************************)
Absent == [absent |-> TRUE]

\* The dict with the keys of r that are not Absent.
Strip(r) == [k \in {k \in DOMAIN r : r[k] # Absent} |-> r[k]]

\* Payment records of the pipeline runs: a complete record, an empty record,
\* an entry that is not a mapping, and a record whose amount is a text.
FullPayment ==
    JDict([ id |-> JInt(501), amount |-> JInt(12345), state |-> JStr("Authorized"),
            cashOutState |-> JStr("CashedOut"), cashOutDate |-> JStr("2024-01-20"),
            paymentReceiptUrl |-> JStr("https://receipt/501"),
            order |-> JDict([id |-> JInt(77), date |-> JStr("2024-01-10")]),
            payer |-> JDict([lastName |-> JStr("Durand"), firstName |-> JStr("Ana"),
                             email |-> JStr("ana@example.org")]),
            items |-> JList(<< JDict([amount |-> JInt(100), state |-> JStr("A"), name |-> JStr("X")]),
                               JDict([amount |-> JInt(200), state |-> JStr("B"), name |-> JStr("Y")]) >>),
            refundOperations |-> JList(<< JDict([amount |-> JInt(500),
                    meta |-> JDict([createdAt |-> JStr("2024-01-15T10:30:00+01:00")])]) >>) ])
EmptyPayment == EmptyDict
NotAMapping == JStr("not a payment")
TextAmountPayment == JDict([id |-> JInt(502), amount |-> JStr("12,50")])

PageData ==
    { <<>>, <<FullPayment>>, <<EmptyPayment, NotAMapping>>, <<TextAmountPayment>> }

DataValues == {Absent, JStr("no list")} \cup {JList(q) : q \in PageData}

PageIndexValues == {Absent, PyNone, JInt(1), JInt(2), JStr("1")}
TotalPagesValues == {Absent, PyNone, JInt(1), JInt(2), JStr("2")}
\* The continuation token is an opaque text; upstream may send none or "".
TokenValues == {Absent, JStr(""), JStr("tokA"), JStr("tokB")}

PaginationDicts ==
    { JDict(Strip(r)) : r \in [ pageIndex : PageIndexValues, totalPages : TotalPagesValues,
                                continuationToken : TokenValues ] }
PaginationValues == {Absent, JStr("no dict")} \cup PaginationDicts

Bodies ==
    {JList(<<>>)} \cup
    { JDict(Strip(r)) : r \in [data : DataValues, pagination : PaginationValues] }

\* requests.get / raise_for_status / response.json(): the decoded body, or the
\* exception (network error or non-2xx status; body that is not JSON) and
\* nothing decoded.
Responses ==
    { [kind |-> "RequestException", body |-> PyNone],
      [kind |-> "JSONDecodeError", body |-> PyNone] } \cup
    { [kind |-> "json", body |-> b] : b \in Bodies }

\* len(data) of a response (0 when it carries no list).
DataLen(resp) ==
    IF resp.kind = "json" /\ IsDict(resp.body) /\ "data" \in DOMAIN resp.body.d
       /\ IsList(resp.body.d["data"])
    THEN Len(resp.body.d["data"].l) ELSE 0

page_size == 100

\* The order of the texts Python compares with >= (line 262).
StrRank == [s \in {"1", "2"} |-> IF s = "1" THEN 1 ELSE 2]

\* a >= b in Python: "TypeError" when the types do not compare.
PyGE(a, b) ==
    IF IsInt(a) /\ IsInt(b) THEN (IF a.n >= b.n THEN "True" ELSE "False")
    ELSE IF IsStr(a) /\ IsStr(b) THEN (IF StrRank[a.s] >= StrRank[b.s] THEN "True" ELSE "False")
    ELSE "TypeError"

\* Lines 239-244: 'data' is there and is a list.
DataIsList(body) == IsList(PyGet(body, "data", PyNone))

\* Lines 246: 'pagination' is there and is a dict.
PaginationIsDict(body) == IsDict(PyGet(body, "pagination", PyNone))

\* Lines 242-252: the accumulator after the page; a page without a 'data'
\* list leaves it as it is.
\* The plausible slip: the page is appended only on the path of line 252.
ExtendItems_OnlyWithPagination(items, body) ==
    IF IsDict(body) /\ DataIsList(body) /\ PaginationIsDict(body)
    THEN items \o body.d["data"].l ELSE items

\* The plausible slip: the page is put in front of the accumulator.
ExtendItems_Prepend(items, body) ==
    IF IsDict(body) /\ DataIsList(body) THEN body.d["data"].l \o items ELSE items

ExtendItems(items, body) ==
    IF IsDict(body) /\ DataIsList(body) THEN items \o body.d["data"].l ELSE items

\* The plausible slip: > for >= at line 262.
PaginationDecision_StrictlyGreater(pagination_info) ==
    LET current_page_index == PyGet(pagination_info, "pageIndex", PyNone)
        total_pages == PyGet(pagination_info, "totalPages", PyNone)
        next_continuation_token == PyGet(pagination_info, "continuationToken", PyNone)
    IN  IF total_pages = PyNone \/ current_page_index = PyNone THEN "missing_index"
        ELSE IF PyGE(current_page_index, total_pages) = "TypeError" THEN "TypeError"
        ELSE IF PyGE(current_page_index, total_pages) = "True"
                /\ current_page_index # total_pages THEN "last_page"
        ELSE IF Truthy(next_continuation_token) THEN "continue"
        ELSE "no_token"

\* Lines 254-271 on a pagination dict: "continue" (next request), a reason to
\* stop, or "TypeError".
PaginationDecision(pagination_info) ==
    LET current_page_index == PyGet(pagination_info, "pageIndex", PyNone)
        total_pages == PyGet(pagination_info, "totalPages", PyNone)
        next_continuation_token == PyGet(pagination_info, "continuationToken", PyNone)
    IN  IF total_pages = PyNone \/ current_page_index = PyNone THEN "missing_index"
        ELSE IF PyGE(current_page_index, total_pages) = "TypeError" THEN "TypeError"
        ELSE IF PyGE(current_page_index, total_pages) = "True" THEN "last_page"
        ELSE IF Truthy(next_continuation_token) THEN "continue"
        ELSE "no_token"

\* The plausible slip: the pagination metadata is read before 'data' is
\* looked at, so a page without a 'data' list can ask for the next page.
PageDecision_PaginationFirst(resp) ==
    IF resp.kind # "json" THEN resp.kind
    ELSE IF ~IsDict(resp.body) THEN "AttributeError"
    ELSE IF ~PaginationIsDict(resp.body)
         THEN (IF DataIsList(resp.body) THEN "no_pagination" ELSE "no_data")
    ELSE IF PaginationDecision(resp.body.d["pagination"]) = "continue" THEN "continue"
    ELSE IF ~DataIsList(resp.body) THEN "no_data"
    ELSE PaginationDecision(resp.body.d["pagination"])

\* The plausible slip: a body that is not JSON is logged and the loop left
\* with break, as for a missing 'data' (a raise forgotten at line 287).
PageDecision_JsonErrorBreaks(resp) ==
    IF resp.kind = "JSONDecodeError" THEN "no_data"
    ELSE IF resp.kind # "json" THEN resp.kind
    ELSE IF ~IsDict(resp.body) THEN "AttributeError"
    ELSE IF ~DataIsList(resp.body) THEN "no_data"
    ELSE IF ~PaginationIsDict(resp.body) THEN "no_pagination"
    ELSE PaginationDecision(resp.body.d["pagination"])

\* One iteration of the loop on a received response (lines 231-293): the
\* exception raised, "continue", or the reason the loop is left.
PageDecision(resp) ==
    IF resp.kind # "json" THEN resp.kind
    ELSE IF ~IsDict(resp.body) THEN "AttributeError"
    ELSE IF ~DataIsList(resp.body) THEN "no_data"
    ELSE IF ~PaginationIsDict(resp.body) THEN "no_pagination"
    ELSE PaginationDecision(resp.body.d["pagination"])

Exceptions ==
    {"RequestException", "JSONDecodeError", "AttributeError", "TypeError", "KeyError",
     "ValueError", "ClientError", "Exception"}

\* The plausible slip: params is base_params, the token never attached.
RequestParams_TokenDropped(from_str, to_str, token) ==
    [ pageSize |-> page_size, from |-> from_str, to |-> to_str, withCount |-> "true",
      continuationToken |-> Absent ]

\* The query of a request (lines 211-226).
RequestParams(from_str, to_str, token) ==
    [ pageSize |-> page_size, from |-> from_str, to |-> to_str, withCount |-> "true",
      continuationToken |-> IF Truthy(token) THEN token ELSE Absent ]

\* page_num += 1, and the count of requests: exact below MaxPageNum.
Incr(n) == IF n < MaxPageNum THEN n + 1 ELSE MaxPageNum

\* The plausible slip: the except clauses log and re-raise, as those of
\* get_ssm_parameter and get_api_token do.
publish_sns_notification_Reraises(outcome) == IF outcome = "ok" THEN "True" ELSE "raise"

\* The plausible slip: no catch-all clause (lines 370-372 missing).
publish_sns_notification_NoCatchAll(outcome) ==
    IF outcome = "ok" THEN "True" ELSE IF outcome = "Exception" THEN "raise" ELSE "False"

\* publish_sns_notification (lines 352-372): every exception is caught.
publish_sns_notification(outcome) == IF outcome = "ok" THEN "True" ELSE "False"

(***************************************************************************)
(* State.                                                                  *)
(***************************************************************************)
VARIABLES
    pc,                          \* position in lambda_handler
    env,                         \* os.environ
    sns_topic_arn,               \* lambda_handler's local
    ssm_index,                   \* parameters fetched so far (lines 393-396)
    today, from_date_str, to_date_str,
    api_token,
    page_num, current_continuation_token, all_items, page_response,  \* call_api's locals
    last_request,                \* the query of the last GET sent to the API
    stop_reason,                 \* why call_api left its loop (its last log line)
    all_api_items, csv_data, result_url,
    s3_objects,                  \* objects written to the bucket in this run
    exc,                         \* the exception being propagated, or "none"
    published,                   \* the publishes attempted on the topic, in order, each
                                 \* with what SNS answered and what the call returned
    result,                      \* what lambda_handler returned
    net                          \* calls made to the outside, by kind

vars ==
    << pc, env, sns_topic_arn, ssm_index, today, from_date_str, to_date_str, api_token,
       page_num, current_continuation_token, all_items, page_response, last_request,
       stop_reason, all_api_items, csv_data, result_url, s3_objects, exc, published,
       result, net >>

dateVars == << today, from_date_str, to_date_str >>
apiVars == << page_num, current_continuation_token, all_items, page_response, last_request, stop_reason >>
outVars == << all_api_items, csv_data, result_url, s3_objects >>

Init ==
    /\ pc = "environment"
    /\ env \in Environments
    /\ sns_topic_arn = PyNone
    /\ ssm_index = 0
    /\ today = Unbound /\ from_date_str = Unbound /\ to_date_str = Unbound
    /\ api_token = Unbound
    /\ page_num = 0 /\ current_continuation_token = PyNone /\ all_items = <<>>
    /\ page_response = Unbound /\ last_request = Unbound /\ stop_reason = "none"
    /\ all_api_items = Unbound /\ csv_data = Unbound /\ result_url = Unbound
    /\ s3_objects = 0
    /\ exc = "none"
    /\ published = <<>>
    /\ result = NoResult
    /\ net = NoNet

\* raise: control goes to the except clauses of lambda_handler.
Raise(kind) == pc' = "except" /\ exc' = kind

\* Lines 379-388.
Environment ==
    /\ pc = "environment"
    /\ sns_topic_arn' = IF ReachesSnsTopicRead(env) THEN SnsTopicOf(env) ELSE PyNone
    /\ IF ReadEnvironment(env) = "ok"
       THEN pc' = "ssm" /\ exc' = exc
       ELSE Raise(ReadEnvironment(env))
    /\ UNCHANGED << env, ssm_index, dateVars, api_token, apiVars, outVars, published, result, net >>

\* One get_ssm_parameter call of lines 393-396 (lines 141-154): the value, or
\* the client error re-raised.
GetSsmParameter ==
    /\ pc = "ssm"
    /\ \E outcome \in SsmOutcomes :
         /\ net' = [net EXCEPT !.ssm = @ + 1]
         /\ IF outcome = "ok"
            THEN /\ ssm_index' = ssm_index + 1
                 /\ pc' = IF ssm_index + 1 = 4 THEN "dates" ELSE "ssm"
                 /\ exc' = exc
            ELSE /\ ssm_index' = ssm_index
                 /\ Raise(outcome)
    /\ UNCHANGED << env, sns_topic_arn, dateVars, api_token, apiVars, outVars, published, result >>

\* Lines 399-412.
ComputeDates ==
    /\ pc = "dates"
    /\ \E now \in Dates :
         /\ today' = now
         /\ from_date_str' = Strftime(from_date(now))
         /\ to_date_str' = Strftime(to_date(now))
    /\ pc' = "token"
    /\ UNCHANGED << env, sns_topic_arn, ssm_index, api_token, apiVars, outVars, exc, published, result, net >>

\* Lines 414-418 (get_api_token, lines 156-177).
GetApiToken ==
    /\ pc = "token"
    /\ \E outcome \in TokenOutcomes :
         /\ net' = [net EXCEPT !.token = @ + 1]
         /\ CASE outcome = "ok" ->
                   api_token' = JStr("bearer") /\ pc' = "call_api" /\ exc' = exc
              [] outcome = "no_access_token" ->
                   api_token' = PyNone /\ Raise("Exception")
              [] OTHER ->
                   api_token' = api_token /\ Raise(outcome)
    /\ UNCHANGED << env, sns_topic_arn, ssm_index, dateVars, apiVars, outVars, published, result >>

\* call_api is entered (lines 205-219).
CallApiStart ==
    /\ pc = "call_api"
    /\ page_num' = 1
    /\ current_continuation_token' = PyNone
    /\ all_items' = <<>>
    /\ pc' = "request"
    /\ UNCHANGED << env, sns_topic_arn, ssm_index, dateVars, api_token, page_response,
                    last_request, stop_reason, outVars, exc, published, result, net >>

\* Lines 224-234: the GET is sent and its response received.
CallApiRequest ==
    /\ pc = "request"
    /\ last_request' = RequestParams(from_date_str, to_date_str, current_continuation_token)
    /\ net' = [net EXCEPT !.page = Incr(@)]
    /\ \E resp \in Responses :
         /\ Len(all_items) + DataLen(resp) <= MaxItems
         /\ page_response' = resp
    /\ pc' = "page"
    /\ UNCHANGED << env, sns_topic_arn, ssm_index, dateVars, api_token, page_num,
                    current_continuation_token, all_items, stop_reason, outVars, exc,
                    published, result >>

\* Lines 236-297: the response is processed; the loop goes on, is left (call_api
\* returns all_items to line 422), or the exception leaves call_api.
CallApiPage ==
    /\ pc = "page"
    /\ LET decision == PageDecision(page_response) IN
       IF decision \in Exceptions
       THEN /\ Raise(decision)
            /\ page_num' = 0 /\ current_continuation_token' = PyNone /\ all_items' = <<>>
            /\ page_response' = Unbound
            /\ UNCHANGED << stop_reason, all_api_items >>
       ELSE IF decision = "continue"
       THEN /\ all_items' = ExtendItems(all_items, page_response.body)
            /\ current_continuation_token' =
                    PyGet(page_response.body.d["pagination"], "continuationToken", PyNone)
            /\ page_num' = Incr(page_num)
            /\ pc' = "request"
            /\ UNCHANGED << page_response, stop_reason, all_api_items, exc >>
       ELSE /\ all_api_items' = JList(ExtendItems(all_items, page_response.body))
            /\ stop_reason' = decision
            /\ page_num' = 0 /\ current_continuation_token' = PyNone /\ all_items' = <<>>
            /\ page_response' = Unbound
            /\ pc' = "convert"
            /\ exc' = exc
    /\ UNCHANGED << env, sns_topic_arn, ssm_index, dateVars, api_token, last_request,
                    csv_data, result_url, s3_objects, published, result, net >>

\* Line 436.
ConvertJsonToCsv ==
    /\ pc = "convert"
    /\ LET r == convert_json_to_csv(all_api_items.l) IN
       IF r.raised # "none"
       THEN Raise(r.raised) /\ csv_data' = csv_data
       ELSE csv_data' = [rows |-> r.rows] /\ pc' = "save" /\ exc' = exc
    /\ UNCHANGED << env, sns_topic_arn, ssm_index, dateVars, api_token, apiVars,
                    all_api_items, result_url, s3_objects, published, result, net >>

\* The objects in the bucket after save_to_s3_and_get_presigned_url: put_object
\* (line 324) comes before generate_presigned_url (line 335).
ObjectsAfterSave(n, outcome) == IF outcome = "put_failed" THEN n ELSE n + 1

\* The plausible slip: save_to_s3_and_get_presigned_url logs its error and
\* returns without a URL instead of raising, and the run goes on.
SaveToS3_FailureSwallowed ==
    /\ pc = "save"
    /\ \E outcome \in S3Outcomes :
         /\ s3_objects' = ObjectsAfterSave(s3_objects, outcome)
         /\ net' = [net EXCEPT !.put = @ + 1,
                               !.presign = IF outcome = "put_failed" THEN @ ELSE @ + 1]
         /\ result_url' = IF outcome = "ok" THEN JStr("https://bucket/presigned") ELSE result_url
         /\ pc' = "notify" /\ exc' = exc
    /\ UNCHANGED << env, sns_topic_arn, ssm_index, dateVars, api_token, apiVars,
                    all_api_items, csv_data, published, result >>

\* Lines 442-447 (save_to_s3_and_get_presigned_url, lines 316-350).
SaveToS3 ==
    /\ pc = "save"
    /\ \E outcome \in S3Outcomes :
         /\ s3_objects' = ObjectsAfterSave(s3_objects, outcome)
         /\ net' = [net EXCEPT !.put = @ + 1,
                               !.presign = IF outcome = "put_failed" THEN @ ELSE @ + 1]
         /\ IF outcome = "ok"
            THEN result_url' = JStr("https://bucket/presigned") /\ pc' = "notify" /\ exc' = exc
            ELSE result_url' = result_url /\ Raise("ClientError")
    /\ UNCHANGED << env, sns_topic_arn, ssm_index, dateVars, api_token, apiVars,
                    all_api_items, csv_data, published, result >>

\* Line 462.
TruncationCount == 100

\* The plausible slip: a full page or more (>= for ==) raises the warning.
warning_message_AtLeast(count) == count >= TruncationCount

\* Lines 461-463: whether the text starts with the possible-truncation warning.
warning_message(count) == count = TruncationCount

\* Lines 465-473.
SuccessMessage(outcome, returned) ==
    [ kind |-> "success", sns |-> outcome, from |-> from_date_str, to |-> to_date_str,
      count |-> Len(all_api_items.l), warning |-> warning_message(Len(all_api_items.l)),
      url |-> result_url, returned |-> returned ]

\* Lines 482-492.
SuccessResult ==
    [ statusCode |-> 200, message |-> "Processing complete",
      period_from |-> from_date_str, period_to |-> to_date_str,
      total_items_processed |-> Len(all_api_items.l), presigned_url |-> result_url ]

\* Lines 449-492.
NotifySuccess ==
    /\ pc = "notify"
    /\ IF Truthy(sns_topic_arn)
       THEN \E fmt \in FormatOutcomes :
              IF fmt # "ok"
              THEN Raise(fmt) /\ UNCHANGED << published, result, net >>
              ELSE \E outcome \in PublishOutcomes :
                     LET returned == publish_sns_notification(outcome) IN
                     /\ net' = [net EXCEPT !.publish = @ + 1]
                     /\ published' = Append(published, SuccessMessage(outcome, returned))
                     /\ IF returned = "raise"
                        THEN Raise("Exception") /\ result' = result
                        ELSE pc' = "done" /\ result' = SuccessResult /\ exc' = exc
       ELSE pc' = "done" /\ result' = SuccessResult /\ UNCHANGED << published, net, exc >>
    /\ UNCHANGED << env, sns_topic_arn, ssm_index, dateVars, api_token, apiVars, outVars >>

\* locals().get(name, 'N/A')
NotAvailable == [text |-> "N/A"]
LocalOr(value) == IF value = Unbound THEN NotAvailable ELSE value

\* Lines 514-518.  page_num is a local of call_api: lambda_handler has none.
FailureMessage(outcome, returned) ==
    [ kind |-> "failure", sns |-> outcome, from |-> LocalOr(from_date_str), to |-> LocalOr(to_date_str),
      page |-> NotAvailable, error |-> exc, returned |-> returned ]

\* The except clauses of lambda_handler (lines 496-524).
HandleException ==
    /\ pc = "except"
    /\ pc' = "done"
    /\ IF exc = "KeyError"
       THEN result' = ConfigurationError /\ UNCHANGED << published, net >>
       ELSE IF Truthy(sns_topic_arn)
       THEN \E fmt \in FormatOutcomes :
              IF fmt # "ok"
              THEN result' = Unhandled /\ UNCHANGED << published, net >>
              ELSE \E outcome \in PublishOutcomes :
                     LET returned == publish_sns_notification(outcome) IN
                     /\ net' = [net EXCEPT !.publish = @ + 1]
                     /\ published' = Append(published, FailureMessage(outcome, returned))
                     /\ result' = IF returned = "raise" THEN Unhandled ELSE InternalServerError
       ELSE result' = InternalServerError /\ UNCHANGED << published, net >>
    /\ UNCHANGED << env, sns_topic_arn, ssm_index, dateVars, api_token, apiVars, outVars, exc >>

Next ==
    \/ Environment
    \/ GetSsmParameter
    \/ ComputeDates
    \/ GetApiToken
    \/ CallApiStart
    \/ CallApiRequest
    \/ CallApiPage
    \/ ConvertJsonToCsv
    \/ SaveToS3
    \/ NotifySuccess
    \/ HandleException

Spec == Init /\ [][Next]_vars

\* One call of call_api on its own: lambda_handler has reached line 422.
AllSet == [name \in EnvNames |-> IF name = "PRESIGNED_URL_EXPIRATION" THEN "int" ELSE "set"]

CallApiInit ==
    /\ pc = "call_api"
    /\ env \in {AllSet, [AllSet EXCEPT !["SNS_TOPIC_ARN"] = "missing"]}
    /\ sns_topic_arn = SnsTopicOf(env)
    /\ ssm_index = 4
    /\ today \in Dates
    /\ from_date_str = Strftime(from_date(today)) /\ to_date_str = Strftime(to_date(today))
    /\ api_token = JStr("bearer")
    /\ page_num = 0 /\ current_continuation_token = PyNone /\ all_items = <<>>
    /\ page_response = Unbound /\ last_request = Unbound /\ stop_reason = "none"
    /\ all_api_items = Unbound /\ csv_data = Unbound /\ result_url = Unbound
    /\ s3_objects = 0
    /\ exc = "none"
    /\ published = <<>>
    /\ result = NoResult
    /\ net = [NoNet EXCEPT !.ssm = 4, !.token = 1]

CallApiNext == CallApiStart \/ CallApiRequest \/ CallApiPage

\* The loop keeps running: every GET returns or raises (timeout=30, line 232),
\* and the interpreter takes the next step of a sequential program.
CallApiFairSpec == CallApiInit /\ [][CallApiNext]_vars /\ WF_vars(CallApiNext)

(***************************************************************************)
(* convert_json_to_csv on its own: lambda_handler has reached line 436 with *)
(* a list drawn from the payments below.  In each field set the values of   *)
(* the upstream's schema come first; the others are values the schema does  *)
(* not allow.                                                               *)
(***************************************************************************)
ValidOrders ==
    { JDict([id |-> JInt(77), date |-> JStr("2024-01-10")]), JDict([id |-> JInt(78)]) }
ValidPayers ==
    { JDict([ lastName |-> JStr("Durand"), firstName |-> JStr("Ana"),
              email |-> JStr("ana@example.org"), dateOfBirth |-> JStr("1990-02-03"),
              company |-> JStr("ACME"), address |-> JStr("1 rue A"),
              zipCode |-> JStr("75001"), city |-> JStr("Paris") ]),
      JDict([lastName |-> JStr("Martin")]) }
ValidItems ==
    { JList(<< JDict([amount |-> JInt(100), state |-> JStr("A"), name |-> JStr("X")]),
               JDict([amount |-> JInt(200), state |-> JStr("B"), name |-> JStr("Y")]) >>),
      JList(<< JDict([name |-> JStr("Z")]), EmptyDict >>) }
ValidRefunds ==
    { JList(<< JDict([amount |-> JInt(500),
                     meta |-> JDict([createdAt |-> JStr("2024-01-15T10:30:00+01:00")])]),
               JDict([amount |-> JInt(250)]) >>),
      JList(<< JDict([meta |-> JDict([createdAt |-> JStr("2023-12-31T23:59:59+00:00")])]) >>) }
ValidAmounts == { JInt(12345) }
\* "Transfered" is a cash-out code and "Authorized" a payment code: each is
\* unknown to the other table.
ValidStates == { JStr("Authorized"), JStr("UnknownCode"), JStr("Transfered") }
ValidCashOutStates == { JStr("CashedOut"), JStr("Authorized") }
ValidTexts == { JStr("2024-01-20") }
ValidIds == { JInt(501) }

OtherOrders == { PyNone, JStr("no order") }
OtherItems ==
    { JList(<< JStr("no item"), JDict([amount |-> JInt(300), state |-> JStr("C"), name |-> JStr("W")]) >>),
      JList(<< JDict([amount |-> PyNone]) >>) }
OtherRefunds ==
    { PyNone,
      JList(<< JDict([amount |-> JInt(500), meta |-> JDict([createdAt |-> JStr("yesterday")])]),
               JInt(5),
               JDict([amount |-> JStr("5"), meta |-> JDict([createdAt |-> JStr("2024-01-15T10:30:00+01:00")])]) >>),
      JList(<< JDict([amount |-> JInt(500), meta |-> JStr("no meta")]) >>) }
OtherAmounts == { PyNone }

ConvPayments ==
    { JDict(Strip(r)) : r \in
        [ order : {Absent} \cup ValidOrders \cup OtherOrders,
          payer : {Absent} \cup ValidPayers,
          items : {Absent} \cup ValidItems \cup OtherItems,
          refundOperations : {Absent} \cup ValidRefunds \cup OtherRefunds,
          id : {Absent} \cup ValidIds,
          amount : {Absent} \cup ValidAmounts \cup OtherAmounts,
          state : {Absent} \cup ValidStates,
          cashOutState : {Absent} \cup ValidCashOutStates,
          cashOutDate : {Absent} \cup ValidTexts,
          paymentReceiptUrl : {Absent} \cup ValidTexts ] }

ConvLists ==
    { <<>>, <<NotAMapping>>, <<FullPayment, NotAMapping, EmptyPayment>>,
      <<EmptyPayment, FullPayment>>, <<FullPayment, TextAmountPayment>>,
      <<TextAmountPayment, FullPayment>> }

ConvInit ==
    /\ pc = "convert"
    /\ env = AllSet
    /\ sns_topic_arn = SnsTopicOf(env)
    /\ ssm_index = 4
    /\ today = [y |-> 2024, m |-> 2, d |-> 5]
    /\ from_date_str = Strftime(from_date(today)) /\ to_date_str = Strftime(to_date(today))
    /\ api_token = JStr("bearer")
    /\ page_num = 0 /\ current_continuation_token = PyNone /\ all_items = <<>>
    /\ page_response = Unbound
    /\ last_request = RequestParams(from_date_str, to_date_str, PyNone)
    /\ stop_reason = "last_page"
    /\ all_api_items \in {JList(<<payment>>) : payment \in ConvPayments}
                            \cup {JList(q) : q \in ConvLists}
    /\ csv_data = Unbound /\ result_url = Unbound
    /\ s3_objects = 0
    /\ exc = "none"
    /\ published = <<>>
    /\ result = NoResult
    /\ net = [NoNet EXCEPT !.ssm = 4, !.token = 1, !.page = 1]

ConvSpec == ConvInit /\ [][ConvertJsonToCsv]_vars

(***************************************************************************)
(* lambda_handler from line 429 on: call_api has returned a list of up to  *)
(* two full pages (page_size items each) and a little more.                *)
(***************************************************************************)
ReturnedCounts == {0, 1, page_size - 1, page_size, page_size + 1, 2 * page_size}
ReturnedList(n) == [i \in 1..n |-> IF i % 2 = 1 THEN EmptyPayment ELSE NotAMapping]

AfterCallApiInit ==
    /\ pc = "convert"
    /\ env \in {AllSet, [AllSet EXCEPT !["SNS_TOPIC_ARN"] = "missing"]}
    /\ sns_topic_arn = SnsTopicOf(env)
    /\ ssm_index = 4
    /\ today \in Dates
    /\ from_date_str = Strftime(from_date(today)) /\ to_date_str = Strftime(to_date(today))
    /\ api_token = JStr("bearer")
    /\ page_num = 0 /\ current_continuation_token = PyNone /\ all_items = <<>>
    /\ page_response = Unbound
    /\ last_request = RequestParams(from_date_str, to_date_str, PyNone)
    /\ stop_reason \in {"last_page", "no_pagination"}
    /\ all_api_items \in {JList(ReturnedList(n)) : n \in ReturnedCounts}
    /\ csv_data = Unbound /\ result_url = Unbound
    /\ s3_objects = 0
    /\ exc = "none"
    /\ published = <<>>
    /\ result = NoResult
    /\ net = [NoNet EXCEPT !.ssm = 4, !.token = 1, !.page = 1]

AfterCallApiNext == ConvertJsonToCsv \/ SaveToS3 \/ NotifySuccess \/ HandleException

AfterCallApiSpec == AfterCallApiInit /\ [][AfterCallApiNext]_vars

(***************************************************************************)
(* Properties.                                                             *)
(***************************************************************************)
\* The page being processed, as the upstream sent it.
PageBody == page_response.body
PageHasDataList ==
    /\ pc = "page" /\ page_response.kind = "json" /\ PageBody.t = "dict"
    /\ "data" \in DOMAIN PageBody.d /\ PageBody.d["data"].t = "list"
PageHasPaginationDict ==
    /\ "pagination" \in DOMAIN PageBody.d /\ PageBody.d["pagination"].t = "dict"
\* call_api returns to line 422 with the list given.
ReturnsItems(items) ==
    /\ pc' = "convert" /\ exc' = "none" /\ all_api_items' = JList(items)
    /\ net' = net

C2_CallApiTerminates == (pc = "call_api") ~> (pc \in {"convert", "except"})

\* C3: a page with a 'data' list and no usable 'pagination' (no key, or not an
\* object) is appended, and call_api returns the earlier items followed by this
\* page's, without raising and without another request.
C3_NoPaginationStops ==
    [][ (PageHasDataList /\ ~PageHasPaginationDict)
            => ReturnsItems(all_items \o PageBody.d["data"].l) ]_vars

\* A second page without 'pagination' ended the call with both pages' items.
C3_Witness ==
    /\ pc = "convert" /\ stop_reason = "no_pagination" /\ net.page = 2
    /\ Len(all_api_items.l) = 3

\* The pagination metadata of the page being processed.
PageInfo == PageBody.d["pagination"].d
PageInfoUsable ==
    /\ PageHasDataList /\ PageHasPaginationDict
    /\ "pageIndex" \in DOMAIN PageInfo /\ PageInfo["pageIndex"].t = "int"
    /\ "totalPages" \in DOMAIN PageInfo /\ PageInfo["totalPages"].t = "int"
PageTokenPresent ==
    /\ "continuationToken" \in DOMAIN PageInfo
    /\ PageInfo["continuationToken"].t = "str"
    /\ PageInfo["continuationToken"].s # ""

\* C4: after an accepted page with numeric pageIndex and totalPages, the next
\* request is sent exactly when pageIndex < totalPages and the page carries a
\* (non-empty) continuation token; otherwise call_api returns everything
\* accumulated, this page included, without error.
C4_ContinueIff ==
    [][ PageInfoUsable =>
          IF PageInfo["pageIndex"].n < PageInfo["totalPages"].n /\ PageTokenPresent
          THEN /\ pc' = "request" /\ exc' = "none"
               /\ all_items' = all_items \o PageBody.d["data"].l
          ELSE ReturnsItems(all_items \o PageBody.d["data"].l) ]_vars

\* After a first page that went on, the second page said pageIndex < totalPages
\* and carried no token: the call returned both pages' items.
C4_Witness ==
    /\ pc = "convert" /\ stop_reason = "no_token" /\ net.page = 2
    /\ Len(all_api_items.l) = 2

\* The month before the month of the date.
PreviousMonth(date) ==
    IF date.m = 1 THEN [y |-> date.y - 1, m |-> 12] ELSE [y |-> date.y, m |-> date.m - 1]
FirstOfPreviousMonth(date) ==
    [y |-> PreviousMonth(date).y, m |-> PreviousMonth(date).m, d |-> 1]
LastOfPreviousMonth(date) ==
    [y |-> PreviousMonth(date).y, m |-> PreviousMonth(date).m,
     d |-> DaysInMonth(PreviousMonth(date).y, PreviousMonth(date).m)]

\* C5: the report window is the whole previous calendar month (its first day
\* to its last day), and the same two values go into every page request, the
\* notification and the run result.
C5_FullPreviousMonth ==
    today # Unbound =>
        /\ from_date_str = Strftime(FirstOfPreviousMonth(today))
        /\ to_date_str = Strftime(LastOfPreviousMonth(today))
        /\ last_request # Unbound =>
              last_request.from = from_date_str /\ last_request.to = to_date_str
        /\ \A i \in 1..Len(published) :
              published[i].from = from_date_str /\ published[i].to = to_date_str
        /\ result.statusCode = 200 =>
              result.period_from = from_date_str /\ result.period_to = to_date_str

\* C6: a run that returns a failure result has written no object to storage.
C6_FailedRunNoArtifact ==
    (pc = "done" /\ result.statusCode = 500) => s3_objects = 0

\* The failure publishes attempted so far.
FailurePublishes == { i \in 1..Len(published) : published[i].kind = "failure" }
TokenObtained == api_token # Unbound /\ api_token # PyNone

\* C7: with a topic configured, a run that fails after the token was obtained
\* attempts exactly one failure publish before it returns its failure result.
C7_FailureNotified ==
    (pc = "done" /\ TokenObtained /\ sns_topic_arn # PyNone /\ result.statusCode = 500)
        => Cardinality(FailurePublishes) = 1

RequiredMissing ==
    \E name \in PlainRequired \cup TemplateRequired \cup {"PRESIGNED_URL_EXPIRATION"} :
        env[name] = "missing"

\* C8: when a required configuration value is missing, the run makes no call
\* to the outside and returns the configuration-error result.
C8_MissingConfigAborts ==
    RequiredMissing =>
        /\ net = NoNet /\ published = <<>> /\ s3_objects = 0
        /\ pc = "done" => result = ConfigurationError

\* C9: when the publish of the success notification fails, for whatever
\* reason, publish_sns_notification returns False and the run still returns
\* the success result with the artifact URL.
C9_PublishFailureSwallowed ==
    \A i \in 1..Len(published) :
        (published[i].kind = "success" /\ published[i].sns # "ok")
            => /\ published[i].returned = "False"
               /\ pc = "done" /\ exc = "none"
               /\ result.statusCode = 200
               /\ result_url # Unbound /\ result.presigned_url = result_url

\* The upload and the URL succeeded, SNS refused the publish, the run returned 200.
C9_Witness ==
    /\ pc = "done" /\ s3_objects = 1 /\ Len(published) = 1
    /\ published[1].kind = "success" /\ published[1].sns = "ClientError"
    /\ result.statusCode = 200

\* The payment converted, when the list holds one.
ThePayment == all_api_items.l[1]
Has(key) == key \in DOMAIN ThePayment.d
FieldIn(key, values) == Has(key) => ThePayment.d[key] \in values
\* Every field of the payment is either absent or a value of the schema.
PresentFieldsValid ==
    /\ FieldIn("order", ValidOrders) /\ FieldIn("payer", ValidPayers)
    /\ FieldIn("items", ValidItems) /\ FieldIn("refundOperations", ValidRefunds)
    /\ FieldIn("id", ValidIds) /\ FieldIn("amount", ValidAmounts)
    /\ FieldIn("state", ValidStates) /\ FieldIn("cashOutState", ValidCashOutStates)
    /\ FieldIn("cashOutDate", ValidTexts) /\ FieldIn("paymentReceiptUrl", ValidTexts)
EmptyText(cell) == cell = JStr("") \/ (cell.t = "joined" /\ cell.parts = <<>>)
SubFieldDefault(key, sub, cell) ==
    (~Has(key) \/ sub \notin DOMAIN ThePayment.d[key].d) => cell = JStr("")

\* C10: a payment record in which any of 'order', 'payer', 'items',
\* 'refundOperations' and the scalar fields are absent (and whose other fields
\* follow the schema) is converted without raising: one row comes out, each
\* absent text field is the empty text and each absent amount is zero.
C10_AbsentFieldsDefault ==
    (pc # "convert" /\ Len(all_api_items.l) = 1 /\ IsDict(ThePayment) /\ PresentFieldsValid)
        => /\ pc = "save" /\ exc = "none"
           /\ Len(csv_data.rows) = 2
           /\ LET row == csv_data.rows[2] IN
              /\ Len(row) = Len(headers)
              /\ SubFieldDefault("order", "id", row[1])
              /\ ~Has("id") => row[2] = JStr("")
              /\ ~Has("amount") => row[3] = JFloat(0)
              /\ SubFieldDefault("order", "date", row[4])
              /\ ~Has("state") => row[5] = JStr("")
              /\ ~Has("cashOutState") => row[6] = JStr("")
              /\ ~Has("cashOutDate") => row[7] = JStr("")
              /\ SubFieldDefault("payer", "lastName", row[8])
              /\ SubFieldDefault("payer", "firstName", row[9])
              /\ SubFieldDefault("payer", "email", row[10])
              /\ SubFieldDefault("payer", "dateOfBirth", row[11])
              /\ SubFieldDefault("payer", "company", row[12])
              /\ SubFieldDefault("payer", "address", row[13])
              /\ SubFieldDefault("payer", "zipCode", row[14])
              /\ SubFieldDefault("payer", "city", row[15])
              /\ ~Has("items") => EmptyText(row[16]) /\ EmptyText(row[19]) /\ EmptyText(row[20])
              /\ ~Has("paymentReceiptUrl") => row[17] = JStr("")
              /\ ~Has("refundOperations") => EmptyText(row[18])
              /\ Has("items") =>
                   \A i \in 1..Len(ThePayment.d["items"].l) :
                      LET item == ThePayment.d["items"].l[i].d IN
                      /\ "amount" \notin DOMAIN item => row[16].parts[i] = JFloat(0)
                      /\ "state" \notin DOMAIN item => row[19].parts[i] = JStr("")
                      /\ "name" \notin DOMAIN item => row[20].parts[i] = JStr("")

\* A record with nothing but an id was converted to a row of defaults.
C10_Witness ==
    /\ pc = "save" /\ Len(all_api_items.l) = 1
    /\ ThePayment = JDict([id |-> JInt(501)])
    /\ csv_data.rows[2][1] = JStr("") /\ csv_data.rows[2][3] = JFloat(0)
    /\ EmptyText(csv_data.rows[2][16]) /\ EmptyText(csv_data.rows[2][18])

\* The elements of the input list that are mappings, in input order.
InputMappings == SelectDicts(all_api_items.l)
\* The cell "Référence du paiement" of a record, as written.
PaymentIdCell(payment) ==
    IF "id" \in DOMAIN payment.d /\ payment.d["id"] # PyNone THEN payment.d["id"] ELSE JStr("")

\* C11: whatever the input list, convert_json_to_csv does not fail: its output
\* is the header row, then one data row per element that is a mapping, in
\* input order (row i carries the payment reference of the i-th mapping);
\* elements that are not mappings give no row, an empty list gives the header
\* row alone.
C11_OneRowPerMapping ==
    pc # "convert" =>
        /\ pc = "save" /\ exc = "none"
        /\ csv_data.rows[1] = headers
        /\ Len(csv_data.rows) = 1 + Len(InputMappings)
        /\ \A i \in 1..Len(InputMappings) :
              /\ Len(csv_data.rows[i + 1]) = Len(headers)
              /\ csv_data.rows[i + 1][2] = PaymentIdCell(InputMappings[i])
\* C12: the text of the success notification carries the possible-truncation
\* warning exactly when call_api returned 100 items (not 99, not 101 or more).
C12_WarningIffExactly100 ==
    \A i \in 1..Len(published) :
        published[i].kind = "success" =>
            (published[i].warning <=> Len(all_api_items.l) = 100)

\* A run that fetched exactly 100 items published the warning and returned 200.
C12_Witness ==
    /\ pc = "done" /\ result.statusCode = 200 /\ Len(all_api_items.l) = 100
    /\ Len(published) = 1 /\ published[1].kind = "success" /\ published[1].warning
    /\ published[1].count = 100
\* The status cell of a record: the table's entry for the code under key, or
\* the code itself ('' when the record has none).
StatusCellOk(table, payment, key, cell) ==
    LET code == IF key \in DOMAIN payment.d THEN payment.d[key] ELSE JStr("") IN
    code.t = "str" =>
        cell = IF code.s \in DOMAIN table THEN JStr(table[code.s]) ELSE code

\* C13: in every row written, the payment-status cell is the payment table's
\* entry for 'state' when the code is in that table and the code unchanged
\* otherwise, and the cashed-out cell is obtained the same way from
\* 'cashOutState' and the cash-out table.
C13_StatusTranslated ==
    pc = "save" =>
        \A i \in 1..Len(InputMappings) :
            /\ StatusCellOk(PAYMENT_STATE_TRANSLATIONS, InputMappings[i], "state",
                            csv_data.rows[i + 1][5])
            /\ StatusCellOk(CASHOUT_STATE_TRANSLATIONS, InputMappings[i], "cashOutState",
                            csv_data.rows[i + 1][6])

\* An unknown payment code went through unchanged beside a translated
\* cash-out code.
C13_Witness ==
    /\ pc = "save" /\ Len(all_api_items.l) = 1 /\ IsDict(ThePayment)
    /\ Has("state") /\ ThePayment.d["state"] = JStr("UnknownCode")
    /\ Has("cashOutState") /\ ThePayment.d["cashOutState"] = JStr("CashedOut")
    /\ csv_data.rows[2][5] = JStr("UnknownCode")
    /\ csv_data.rows[2][6] = JStr("Versé sur le compte bancaire")
\* A field of the pagination object that is missing, null or not a number.
PageInfoFieldMalformed(key) == key \notin DOMAIN PageInfo \/ PageInfo[key].t # "int"
PageInfoMalformed ==
    /\ PageHasDataList /\ PageHasPaginationDict
    /\ PageInfoFieldMalformed("pageIndex") \/ PageInfoFieldMalformed("totalPages")

\* C14: a page whose 'pagination' object has a pageIndex or totalPages that is
\* missing, null or not a number is the final page: its items are kept, no
\* further request is sent, and call_api returns the accumulated items without
\* raising.
C14_MalformedPaginationFinal ==
    [][ PageInfoMalformed => ReturnsItems(all_items \o PageBody.d["data"].l) ]_vars
\* The 'data' list of the page being processed; nothing when it has none.
PageItems == IF PageHasDataList THEN PageBody.d["data"].l ELSE <<>>

\* C15: what call_api returns is the concatenation, in request order, of the
\* 'data' lists of the pages it fetched.  Step by step: the accumulator is
\* empty when the call starts, a request leaves it alone, a page that leads to
\* a further request has a 'data' list and is appended behind it as it came,
\* and the value returned is the accumulator with the last page behind it.
C15_ConcatenationInOrder ==
    [][ /\ pc = "call_api" => all_items' = <<>>
        /\ pc = "request" => all_items' = all_items
        /\ (pc = "page" /\ pc' = "request")
              => PageHasDataList /\ all_items' = all_items \o PageItems
        /\ (pc = "page" /\ pc' = "convert")
              => all_api_items' = JList(all_items \o PageItems) ]_vars

\* Two pages, one record then two entries: the three came back in that order.
C15_Witness ==
    /\ pc = "convert" /\ net.page = 2 /\ stop_reason = "last_page"
    /\ all_api_items = JList(<<FullPayment, EmptyPayment, NotAMapping>>)
\* C16: the first request of a call carries no continuation token and every
\* later one carries the token of the page received just before it; pageSize
\* (100), from, to and withCount are the same on every request.
C16_TokenChain ==
    [][ pc = "request" =>
          /\ last_request'.pageSize = 100 /\ last_request'.withCount = "true"
          /\ last_request'.from = from_date_str /\ last_request'.to = to_date_str
          /\ IF last_request = Unbound
             THEN last_request'.continuationToken = Absent
             ELSE /\ last_request'.continuationToken = PageInfo["continuationToken"]
                  /\ last_request'.continuationToken # Absent
                  /\ last_request'.pageSize = last_request.pageSize
                  /\ last_request'.withCount = last_request.withCount
                  /\ last_request'.from = last_request.from
                  /\ last_request'.to = last_request.to ]_vars

\* Two requests were sent: the second one carried the first page's token, and
\* the second page has given another token, which the third request will carry.
C16_Witness ==
    /\ pc = "request" /\ net.page = 2 /\ page_num = 3
    /\ last_request.continuationToken = JStr("tokA")
    /\ PageInfo["continuationToken"] = JStr("tokB")
    /\ current_continuation_token = JStr("tokB")
\* The page being processed is a JSON object without a 'data' list.
PageWithoutDataList ==
    /\ pc = "page" /\ page_response.kind = "json" /\ PageBody.t = "dict"
    /\ "data" \notin DOMAIN PageBody.d \/ PageBody.d["data"].t # "list"

CallApiRaised == net.page >= 1 /\ all_api_items = Unbound

\* C18: when call_api fails while fetching page k, the failure notification
\* carries the date window of the run and the page index reached, k.
C18_FailureNamesPage ==
    \A i \in 1..Len(published) :
        (published[i].kind = "failure" /\ CallApiRaised) =>
            /\ published[i].from = from_date_str /\ published[i].to = to_date_str
            /\ published[i].page = [page_num |-> net.page]
\* The success publishes attempted so far.
SuccessPublishes == { i \in 1..Len(published) : published[i].kind = "success" }
\* The upload was attempted and the run holds no presigned URL: put_object or
\* generate_presigned_url failed.
StorageFailed == net.put >= 1 /\ result_url = Unbound
\* The run ended in failure: a 500 result, or an exception out of lambda_handler.
RunFailed ==
    pc = "done" /\ result \in {ConfigurationError, InternalServerError, Unhandled}

TokenFailed == net.token >= 1 /\ ~TokenObtained

\* C20: when the token request fails or gives no access token, the run is
\* aborted: no page request is sent, nothing is written to storage, the run
\* ends in failure, and with a topic configured one failure notification has
\* been attempted.
C20_TokenFailureAborts ==
    TokenFailed =>
        /\ net.page = 0 /\ net.put = 0 /\ s3_objects = 0
        /\ pc \in {"except", "done"}
        /\ pc = "done" =>
              /\ RunFailed
              /\ Truthy(sns_topic_arn) => Cardinality(FailurePublishes) = 1
\* C21: the configuration-error result is returned only for a missing required
\* configuration value: a run that returns it has a required variable unset
\* and failed while reading the configuration, before any call to the
\* parameter store, the token endpoint, the API, storage or the topic and
\* before any notification text was built.
C21_ConfigErrorOnlyForMissingConfig ==
    (pc = "done" /\ result = ConfigurationError) =>
        /\ RequiredMissing
        /\ net = NoNet /\ s3_objects = 0 /\ published = <<>>
\* The fields of the payment other than 'refundOperations' follow the schema.
OtherFieldsValid ==
    /\ FieldIn("order", ValidOrders) /\ FieldIn("payer", ValidPayers)
    /\ FieldIn("items", ValidItems)
    /\ FieldIn("id", ValidIds) /\ FieldIn("amount", ValidAmounts)
    /\ FieldIn("state", ValidStates) /\ FieldIn("cashOutState", ValidCashOutStates)
    /\ FieldIn("cashOutDate", ValidTexts) /\ FieldIn("paymentReceiptUrl", ValidTexts)

\* The record converted has a 'refundOperations' that is a list.
HasRefundList ==
    /\ Len(all_api_items.l) = 1 /\ IsDict(ThePayment) /\ OtherFieldsValid
    /\ Has("refundOperations") /\ ThePayment.d["refundOperations"].t = "list"

\* The entries of the refund list that are mappings, in order.
RefundMappings == SelectDicts(ThePayment.d["refundOperations"].l)

\* The line the claim gives a refund entry whose 'meta' is absent or a mapping.
RefundLineOk(refund, line) ==
    LET amount == IF "amount" \in DOMAIN refund.d THEN refund.d["amount"] ELSE JInt(0)
        stamp == IF "meta" \in DOMAIN refund.d /\ "createdAt" \in DOMAIN refund.d["meta"].d
                 THEN refund.d["meta"].d["createdAt"] ELSE PyNone
    IN  IF amount.t # "int" THEN line = [line |-> "Erreur formatage remboursement"]
        ELSE IF stamp = PyNone \/ stamp = JStr("")
        THEN line = [line |-> "Remboursement de (date inconnue)", amount |-> JFloat(amount.n)]
        ELSE IF stamp.t = "str" /\ stamp.s \in DOMAIN IsoDates
        THEN line = [line |-> "Remboursement de le", amount |-> JFloat(amount.n),
                     date |-> StrftimeDMY(IsoDates[stamp.s])]
        ELSE line = [line |-> "Erreur formatage remboursement"]

\* C22: for a record whose 'refundOperations' is a list, the conversion does
\* not fail whatever the entries are, and the refund cell is one line per entry
\* that is a mapping, in order, joined with a newline: the dated line when the
\* timestamp parses, the '(date inconnue)' line when there is none, the error
\* marker when the timestamp or the amount cannot be processed; entries that
\* are not mappings give no line.
C22_RefundLines ==
    (pc # "convert" /\ HasRefundList) =>
        /\ pc = "save" /\ exc = "none"
        /\ LET cell == csv_data.rows[2][18] IN
           /\ cell.t = "joined" /\ cell.sep = "\n"
           /\ Len(cell.parts) = Len(RefundMappings)
           /\ \A i \in 1..Len(RefundMappings) :
                 ("meta" \notin DOMAIN RefundMappings[i].d
                    \/ RefundMappings[i].d["meta"].t = "dict")
                 => RefundLineOk(RefundMappings[i], cell.parts[i])
\* C23: a run attempts at most one notification publish, and never publishes
\* both a success and a failure notification.
C23_AtMostOnePublish ==
    /\ Len(published) <= 1 /\ net.publish = Len(published)
    /\ SuccessPublishes = {} \/ FailurePublishes = {}

\* SNS failed on the success notification with an unexpected error: the run
\* ended with that single publish attempt and no failure notification.
C23_Witness ==
    /\ pc = "done" /\ net.publish = 1 /\ Len(published) = 1
    /\ published[1].kind = "success" /\ published[1].sns = "Exception"
    /\ FailurePublishes = {}
====
